---- MODULE Spec2Model ----
(***************************************************************************)
(* A model of cache/restorer.go: restorer.Restore, restorer.restore,       *)
(* restorer.generateKey, getSeparator and writeCacheMetadata.              *)
(*                                                                         *)
(* Strings are sequences of one-character strings, so that the path        *)
(* functions (Clean, Join, TrimPrefix, HasSuffix) are computed as the Go   *)
(* standard library computes them.  The host is a non-Windows one          *)
(* (runtime.GOOS # "windows"), so filepath.Separator is "/".               *)
(***************************************************************************)
EXTENDS Integers, Sequences, FiniteSets, TLC

(***************************************************************************)
(* Bounds of the model.                                                    *)
(***************************************************************************)
\* the longest list of destinations (Spec)
MaxDsts == 2
\* the longest list of destinations and the largest number of objects in
\* the store (SpecDiscovery, SpecPaths, SpecPipe)
MaxEntries == 1
\* the largest number of chunks Storage.Get writes into the pipe (Spec,
\* SpecDiscovery, SpecPaths)
MaxChunks == 1
\* the largest number of chunks Storage.Get writes into the pipe (SpecPipe)
MaxStream == 2

(***************************************************************************)
(* Strings.                                                                *)
(***************************************************************************)
SLASH == "/"
DOT == "."

\* runtime.GOOS of the modelled build
GOOS == "linux"

\* getSeparator()
getSeparator == IF GOOS = "windows" THEN <<"\\">> ELSE <<SLASH>>

\* strings.HasPrefix
HasPrefix(s, p) ==
    /\ Len(p) <= Len(s)
    /\ SubSeq(s, 1, Len(p)) = p

\* strings.HasSuffix
HasSuffix(s, p) ==
    /\ Len(p) <= Len(s)
    /\ SubSeq(s, Len(s) - Len(p) + 1, Len(s)) = p

\* strings.TrimPrefix: s without the leading p, or s itself when s does
\* not start with p
TrimPrefix(s, p) ==
    IF HasPrefix(s, p) THEN SubSeq(s, Len(p) + 1, Len(s)) ELSE s

\* filepath.ToSlash: every filepath.Separator becomes "/"
ToSlash(s) ==
    [i \in 1..Len(s) |-> IF <<s[i]>> = getSeparator THEN SLASH ELSE s[i]]

\* the lazybuf of filepath.Clean, cut back to w characters while the
\* character at w is not a separator (the loop of the ".." case)
RECURSIVE CleanBackUp(_, _, _)
CleanBackUp(out, w, dotdot) ==
    IF w > dotdot /\ out[w + 1] # SLASH
    THEN CleanBackUp(out, w - 1, dotdot)
    ELSE w

\* the end of the path element starting at r (0-based index of the first
\* separator at or after r, or n)
RECURSIVE CleanElemEnd(_, _)
CleanElemEnd(path, r) ==
    IF r < Len(path) /\ path[r + 1] # SLASH
    THEN CleanElemEnd(path, r + 1)
    ELSE r

\* the main loop of filepath.Clean; r and dotdot are the 0-based indices
\* of the Go code, out is the buffer written so far
RECURSIVE CleanLoop(_, _, _, _, _)
CleanLoop(path, r, out, dotdot, rooted) ==
    LET n == Len(path) IN
    IF r >= n THEN out
    ELSE IF path[r + 1] = SLASH
    THEN CleanLoop(path, r + 1, out, dotdot, rooted)
    ELSE IF path[r + 1] = DOT /\ (r + 1 = n \/ path[r + 2] = SLASH)
    THEN CleanLoop(path, r + 1, out, dotdot, rooted)
    ELSE IF /\ path[r + 1] = DOT
            /\ r + 1 < n
            /\ path[r + 2] = DOT
            /\ (r + 2 = n \/ path[r + 3] = SLASH)
    THEN IF Len(out) > dotdot
         THEN LET w == CleanBackUp(out, Len(out) - 1, dotdot) IN
              CleanLoop(path, r + 2, SubSeq(out, 1, w), dotdot, rooted)
         ELSE IF ~rooted
         THEN LET o1 == IF Len(out) > 0 THEN out \o <<SLASH>> ELSE out
                  o2 == o1 \o <<DOT, DOT>> IN
              CleanLoop(path, r + 2, o2, Len(o2), rooted)
         ELSE CleanLoop(path, r + 2, out, dotdot, rooted)
    ELSE LET o1 == IF (rooted /\ Len(out) # 1) \/ (~rooted /\ Len(out) # 0)
                   THEN out \o <<SLASH>> ELSE out
             e == CleanElemEnd(path, r) IN
         CleanLoop(path, e, o1 \o SubSeq(path, r + 1, e), dotdot, rooted)

Clean_Identity(path) == path

\* filepath.Clean
Clean(path) ==
    IF path = <<>> THEN <<DOT>>
    ELSE LET rooted == path[1] = SLASH
             out == IF rooted
                    THEN CleanLoop(path, 1, <<SLASH>>, 1, TRUE)
                    ELSE CleanLoop(path, 0, <<>>, 0, FALSE) IN
         IF out = <<>> THEN <<DOT>> ELSE out

\* strings.Join(elems, "/")
RECURSIVE StringsJoin(_)
StringsJoin(elems) ==
    IF elems = <<>> THEN <<>>
    ELSE IF Len(elems) = 1 THEN elems[1]
    ELSE elems[1] \o <<SLASH>> \o StringsJoin(Tail(elems))

\* filepath.Join: the elements from the first non-empty one on, joined
\* with the separator and cleaned; "" when every element is empty
RECURSIVE Join(_)
Join(elems) ==
    IF elems = <<>> THEN <<>>
    ELSE IF elems[1] # <<>> THEN Clean(StringsJoin(elems))
    ELSE Join(Tail(elems))

(***************************************************************************)
(* The state.                                                              *)
(***************************************************************************)
VARIABLES
    r,           \* the restorer's fields (restorer struct), fixed by NewRestorer
    arg,         \* the list of destinations Restore was called with
    objects,     \* the object store: for each object, in listing order, what
                 \* follows join(namespace, key) in its path
    chunks,      \* the object store: the number of chunks Storage.Get has
                 \* to write for an object
    pc,          \* where the call of Restore is
    key,         \* the key generateKey returned
    genLog,      \* the generators generateKey invoked, in order
    listLog,     \* the prefixes Storage.List was called with, in order
    dsts,        \* Restore's dsts: the argument, then what discovery appends
    idx,         \* how many elements of dsts the launch loop has gone through
    wg,          \* the sync.WaitGroup's counter
    errs,        \* the internal.MultiError: the errors added, in order
    tasks,       \* one record per goroutine started at line 100
    metaFile,    \* the content of the file PLUGIN_CACHE_INTEL_FILE_NAME
    metaWriters, \* the tasks that are inside os.WriteFile on that file
    metaWrites,  \* how many writes of that file were completed
    result       \* what Restore returned

vars == <<r, arg, objects, chunks, pc, key, genLog, listLog, dsts, idx, wg, errs, tasks,
          metaFile, metaWriters, metaWrites, result>>

NoError == "nil"

\* the value of result while Restore has not returned
NotReturned == [kind |-> "none"]

(***************************************************************************)
(* Key generators.  A key.Generator is modelled by what its Generate       *)
(* returns in this call: a key and an error.                               *)
(***************************************************************************)
NilGenerator == [nil |-> TRUE]

PrimaryOk    == [nil |-> FALSE, name |-> "g",  key |-> <<"k">>, err |-> NoError]
PrimaryFail  == [nil |-> FALSE, name |-> "g",  key |-> <<>>, err |-> "primary failed"]
FallbackOk   == [nil |-> FALSE, name |-> "fg", key |-> <<"f">>, err |-> NoError]
FallbackFail == [nil |-> FALSE, name |-> "fg", key |-> <<>>, err |-> "fallback failed"]

\* key.Generator.Generate
Generate(gen) == [key |-> gen.key, err |-> gen.err]

\* restorer.generateKey: the key, the error and the generators invoked
generateKey_PrimaryErrorWins(g, fg) ==
    LET first == Generate(g) IN
    IF first.err = NoError
    THEN [key |-> first.key, err |-> NoError, calls |-> <<g.name>>]
    ELSE IF ~fg.nil
    THEN LET second == Generate(fg) IN
         IF second.err = NoError
         THEN [key |-> second.key, err |-> NoError, calls |-> <<g.name, fg.name>>]
         ELSE [key |-> <<>>, err |-> first.err, calls |-> <<g.name, fg.name>>]
    ELSE [key |-> <<>>, err |-> first.err, calls |-> <<g.name>>]

generateKey_NoFallback(g, fg) ==
    LET first == Generate(g) IN
    IF first.err = NoError
    THEN [key |-> first.key, err |-> NoError, calls |-> <<g.name>>]
    ELSE [key |-> <<>>, err |-> first.err, calls |-> <<g.name>>]

generateKey(g, fg) ==
    LET first == Generate(g) IN
    IF first.err = NoError
    THEN [key |-> first.key, err |-> NoError, calls |-> <<g.name>>]
    ELSE IF ~fg.nil
    THEN LET second == Generate(fg) IN
         IF second.err = NoError
         THEN [key |-> second.key, err |-> NoError, calls |-> <<g.name, fg.name>>]
         ELSE [key |-> <<>>, err |-> second.err, calls |-> <<g.name, fg.name>>]
    ELSE [key |-> <<>>, err |-> first.err, calls |-> <<g.name>>]

(***************************************************************************)
(* Discovery.                                                              *)
(***************************************************************************)
\* line 63: the namespace Restore works with
namespace == ToSlash(Clean(r.namespace))

\* lines 66-69: the prefix Storage.List is called with
ListPrefix(k) ==
    LET prefix == Join(<<namespace, k>>) IN
    IF ~HasSuffix(prefix, getSeparator) /\ r.enableCacheKeySeparator
    THEN prefix \o getSeparator
    ELSE prefix

ErrNotImplemented == "not implemented"
ErrList == "list failed"

\* what precedes the prefix in the paths a backend lists: the "harness"
\* backend lists paths that start with accountID + "/intel/"
ListedRoot ==
    IF r.backend = "harness"
    THEN r.accountID \o <<SLASH, "i", "n", "t", "e", "l", SLASH>>
    ELSE <<>>

\* the path under which the store lists the object whose name continues
\* the cache's root, join(namespace, key), with o
ObjectPath(k, o) == ListedRoot \o Join(<<namespace, k>>) \o o

\* the objects whose listed path starts with the prefix, in listing order
RECURSIVE Under(_, _, _)
Under(objs, k, prefix) ==
    IF objs = <<>> THEN <<>>
    ELSE LET path == ObjectPath(k, Head(objs))
             rest == Under(Tail(objs), k, prefix) IN
         IF HasPrefix(path, ListedRoot \o prefix)
         THEN <<[Path |-> path]>> \o rest
         ELSE rest

\* Storage.List(prefix): the objects under the prefix, or the
\* not-implemented sentinel, or another error
StorageList(k, prefix) ==
    { [err |-> NoError, entries |-> Under(objects, k, prefix)],
      [err |-> ErrNotImplemented, entries |-> <<>>],
      [err |-> ErrList, entries |-> <<>>] }

\* lines 80-86: the destinations of the listed entries
EntryDsts(entries, prefix) ==
    [i \in 1..Len(entries) |->
        IF r.enableCacheKeySeparator
        THEN TrimPrefix(entries[i].Path, prefix)
        ELSE TrimPrefix(entries[i].Path, prefix \o getSeparator)]

\* lines 72-89: what Restore does with the answer of Storage.List; ret is
\* the error Restore returns at once, or NotReturned when it goes on
Discover_IgnoreListError(prefix, resp) ==
    IF resp.err = NoError
    THEN IF r.failIfKeyNotPresent /\ Len(resp.entries) = 0
         THEN [ret |-> [kind |-> "key does not exist", cause |-> prefix],
               dsts |-> <<>>]
         ELSE LET p == IF r.backend = "harness"
                       THEN r.accountID \o <<SLASH, "i", "n", "t", "e", "l", SLASH>> \o prefix
                       ELSE prefix IN
              [ret |-> NotReturned, dsts |-> EntryDsts(resp.entries, p)]
    ELSE [ret |-> NotReturned, dsts |-> <<>>]

Discover_NeverAbsent(prefix, resp) ==
    IF resp.err = NoError
    THEN LET p == IF r.backend = "harness"
                  THEN r.accountID \o <<SLASH, "i", "n", "t", "e", "l", SLASH>> \o prefix
                  ELSE prefix IN
         [ret |-> NotReturned, dsts |-> EntryDsts(resp.entries, p)]
    ELSE IF resp.err # ErrNotImplemented
    THEN [ret |-> [kind |-> "list", cause |-> resp.err], dsts |-> <<>>]
    ELSE [ret |-> NotReturned, dsts |-> <<>>]

Discover_SentinelIsError(prefix, resp) ==
    IF resp.err = NoError
    THEN IF r.failIfKeyNotPresent /\ Len(resp.entries) = 0
         THEN [ret |-> [kind |-> "key does not exist", cause |-> prefix],
               dsts |-> <<>>]
         ELSE LET p == IF r.backend = "harness"
                       THEN r.accountID \o <<SLASH, "i", "n", "t", "e", "l", SLASH>> \o prefix
                       ELSE prefix IN
              [ret |-> NotReturned, dsts |-> EntryDsts(resp.entries, p)]
    ELSE [ret |-> [kind |-> "list", cause |-> resp.err], dsts |-> <<>>]

Discover(prefix, resp) ==
    IF resp.err = NoError
    THEN IF r.failIfKeyNotPresent /\ Len(resp.entries) = 0
         THEN [ret |-> [kind |-> "key does not exist", cause |-> prefix],
               dsts |-> <<>>]
         ELSE LET p == IF r.backend = "harness"
                       THEN r.accountID \o <<SLASH, "i", "n", "t", "e", "l", SLASH>> \o prefix
                       ELSE prefix IN
              [ret |-> NotReturned, dsts |-> EntryDsts(resp.entries, p)]
    ELSE IF resp.err # ErrNotImplemented
    THEN [ret |-> [kind |-> "list", cause |-> resp.err], dsts |-> <<>>]
    ELSE [ret |-> NotReturned, dsts |-> <<>>]

(***************************************************************************)
(* The aggregated error (internal.MultiError) and the wait group.          *)
(***************************************************************************)
\* MultiError.Add: appends under the MultiError's mutex
MultiError_Add(e, err) == Append(e, err)

\* MultiError.Err: nil when nothing was added
MultiError_Err(e) == IF Len(e) = 0 THEN NoError ELSE "multi error"

\* line 109: wg.Wait returns when the counter is zero
WgWaitReturns_NoJoin(counter) == TRUE

WgWaitReturns(counter) == counter = 0

\* lines 111-117: what Restore returns after the join
RestoreResult(e) ==
    IF MultiError_Err(e) # NoError
    THEN [kind |-> "restore failed", cause |-> e]
    ELSE [kind |-> NoError]

(***************************************************************************)
(* The metadata artifact.                                                  *)
(***************************************************************************)
\* humanize.Bytes for sizes below 1000 bytes: the number and the unit "B"
HumanizeBytes(n) == <<n, "B">>

\* the content of the file before any write
NoFile == <<>>
\* the content of the file between os.WriteFile's truncating open and the
\* end of its write
PartialFile == <<"partial">>

\* CacheMetadata{CacheSize: ...} as written to the file
CacheMetadata(size) == <<"cache_size", size>>

(***************************************************************************)
(* One restore task: the goroutine of lines 100-106, the restore it calls  *)
(* and the producer goroutine of lines 125-135.                            *)
(*   pc      where the task is: "spawned", "extract", "meta", "metaio",    *)
(*           "add", "wgdone", "done"                                       *)
(*   prod    where the producer is: "none", "get" (inside Storage.Get),    *)
(*           "write" (inside Storage.Get, blocked in pw.Write), "exit"     *)
(*   sent    while Storage.Get runs, the chunks it has passed to pw.Write  *)
(*   getRes  what Storage.Get returned                                     *)
(*   got     while Extract runs, the chunks it has read from pr            *)
(*   seen    while Extract runs, what its last Read returned besides data  *)
(*   werr    the error the write end was closed with                       *)
(*   rerr    the error the read end was closed with                        *)
(*   cause   the error Extract returned                                    *)
(*   written the bytes Extract reported                                    *)
(*   res     what restore returned                                         *)
(***************************************************************************)
NewTask(src, dst) ==
    [src |-> src, dst |-> dst, pc |-> "spawned", prod |-> "none",
     sent |-> 0, getRes |-> "none", got |-> 0, seen |-> "none",
     werr |-> "none", rerr |-> "none", cause |-> "none", written |-> 0,
     res |-> "none"]

Tasks == 1..Len(tasks)

\* the first close of an end of the pipe decides its error
CloseOnce(old, new) == IF old = "none" THEN new ELSE old

(***************************************************************************)
(* Restore, the coordinator.                                               *)
(***************************************************************************)
\* lines 55-58 and the test of line 65
Restore_GenerateKey ==
    /\ pc = "start"
    /\ LET k == generateKey(r.g, r.fg) IN
       /\ key' = k.key
       /\ genLog' = k.calls
       /\ IF k.err # NoError
          THEN /\ result' = [kind |-> "generate key", cause |-> k.err]
               /\ pc' = "returned"
          ELSE /\ result' = result
               /\ pc' = IF Len(dsts) = 0 THEN "list" ELSE "launch"
    /\ UNCHANGED <<r, arg, objects, chunks, listLog, dsts, idx, wg, errs, tasks,
                   metaFile, metaWriters, metaWrites>>

\* lines 66-90: discovery
Restore_List ==
    /\ pc = "list"
    /\ LET prefix == ListPrefix(key) IN
       \E resp \in StorageList(key, prefix) :
          LET d == Discover(prefix, resp) IN
          /\ listLog' = Append(listLog, [prefix |-> prefix, err |-> resp.err,
                                         entries |-> resp.entries])
          /\ IF d.ret # NotReturned
             THEN /\ result' = d.ret
                  /\ pc' = "returned"
                  /\ dsts' = dsts
             ELSE /\ result' = result
                  /\ pc' = "launch"
                  /\ dsts' = dsts \o d.dsts
    /\ UNCHANGED <<r, arg, objects, chunks, key, genLog, idx, wg, errs, tasks,
                   metaFile, metaWriters, metaWrites>>

\* lines 92-107: one turn of the loop, which starts the goroutine of the
\* next destination
Restore_Launch ==
    /\ pc = "launch"
    /\ idx < Len(dsts)
    /\ LET dst == dsts[idx + 1]
           src == Join(<<namespace, key, dst>>) IN
       tasks' = Append(tasks, NewTask(src, dst))
    /\ wg' = wg + 1
    /\ idx' = idx + 1
    /\ UNCHANGED <<r, arg, objects, chunks, pc, key, genLog, listLog, dsts, errs,
                   metaFile, metaWriters, metaWrites, result>>

\* lines 109-117: the join and the return
Restore_Wait ==
    /\ pc = "launch"
    /\ idx = Len(dsts)
    /\ WgWaitReturns(wg)
    /\ result' = RestoreResult(errs)
    /\ pc' = "returned"
    /\ UNCHANGED <<r, arg, objects, chunks, key, genLog, listLog, dsts, idx, wg, errs,
                   tasks, metaFile, metaWriters, metaWrites>>

(***************************************************************************)
(* restore: the producer (lines 125-135) and Storage.Get.                  *)
(***************************************************************************)
ErrFetch == "get failed"
ErrClosedPipe == "closed pipe"
ErrDecode == "decode failed"
EOF == "EOF"

TaskStep(i, t) ==
    /\ tasks' = [tasks EXCEPT ![i] = t]
    /\ UNCHANGED <<r, arg, objects, chunks, pc, key, genLog, listLog, dsts, idx, wg, errs,
                   metaFile, metaWriters, metaWrites, result>>

\* lines 122-137: restore makes the pipe, starts the producer, which calls
\* Storage.Get, and calls Archive.Extract
restore_Begin_SkipAfterFailure(i) ==
    /\ tasks[i].pc = "spawned"
    /\ IF Len(errs) > 0
       THEN TaskStep(i, [tasks[i] EXCEPT !.pc = "wgdone", !.res = NoError])
       ELSE TaskStep(i, [tasks[i] EXCEPT !.pc = "extract", !.prod = "get"])

restore_Begin(i) ==
    /\ tasks[i].pc = "spawned"
    /\ TaskStep(i, [tasks[i] EXCEPT !.pc = "extract", !.prod = "get"])

\* pw.Write on the pipe of line 122: the chunk is handed over and the
\* writer waits in the call
PipeWrite_Buffered(t) == [t EXCEPT !.sent = @ + 1]

PipeWrite(t) == [t EXCEPT !.prod = "write", !.sent = @ + 1]

\* Storage.Get calls pw.Write with the next chunk: the call blocks until
\* the chunk is read or the read end is closed
Get_Write(i) ==
    /\ tasks[i].prod = "get"
    /\ tasks[i].sent < chunks
    /\ tasks[i].rerr = "none"
    /\ TaskStep(i, PipeWrite(tasks[i]))

\* pw.Write returns the read end's error, Storage.Get returns it, and the
\* producer closes the write end (lines 130-134, then 126)
Get_WriteFails(i) ==
    /\ \/ tasks[i].prod = "write"
       \/ tasks[i].prod = "get" /\ tasks[i].sent < chunks
    /\ tasks[i].rerr # "none"
    /\ TaskStep(i, [tasks[i] EXCEPT !.prod = "exit",
                                    !.sent = 0,
                                    !.getRes = tasks[i].rerr,
                                    !.werr = CloseOnce(@, ErrFetch)])

Get_Return_PlainClose(i, e) ==
    /\ tasks[i].prod = "get"
    /\ TaskStep(i, [tasks[i] EXCEPT !.prod = "exit",
                                    !.sent = 0,
                                    !.getRes = e,
                                    !.werr = CloseOnce(@, EOF)])

\* Storage.Get returns e; the producer closes the write end with the
\* error (line 131), or with none (line 126)
Get_Return(i, e) ==
    /\ tasks[i].prod = "get"
    /\ TaskStep(i, [tasks[i] EXCEPT !.prod = "exit",
                                    !.sent = 0,
                                    !.getRes = e,
                                    !.werr = CloseOnce(@, IF e = NoError
                                                          THEN EOF
                                                          ELSE ErrFetch)])

(***************************************************************************)
(* restore: the consumer (lines 139-161) and Archive.Extract.              *)
(***************************************************************************)
\* Extract reads from pr: the chunk the producer is writing, or, with no
\* write under way, what the write end was closed with
Extract_Read(i) ==
    /\ tasks[i].pc = "extract"
    /\ tasks[i].seen = "none"
    /\ IF tasks[i].prod = "write"
       THEN TaskStep(i, [tasks[i] EXCEPT !.got = @ + 1, !.prod = "get"])
       ELSE /\ tasks[i].werr # "none"
            /\ TaskStep(i, [tasks[i] EXCEPT !.seen = tasks[i].werr])

\* line 103: the goroutine adds restore's error when there is one
ShouldAdd_Always(err) == TRUE

ShouldAdd(err) == err # NoError

\* where the goroutine goes when restore has returned err
AfterRestore(err) == IF ShouldAdd(err) THEN "add" ELSE "wgdone"

restore_ExtractFails_NoClose(i) ==
    /\ tasks[i].pc = "extract"
    /\ LET cause == IF tasks[i].seen \in {"none", EOF}
                    THEN ErrDecode ELSE tasks[i].seen IN
       TaskStep(i, [tasks[i] EXCEPT !.cause = cause,
                                    !.got = 0,
                                    !.seen = "none",
                                    !.res = "extract failed",
                                    !.pc = AfterRestore("extract failed")])

\* lines 139-147, then 123: Extract returns an error (the read failure it
\* saw, or a failure of its own); restore closes the read end with it and
\* returns it
restore_ExtractFails(i) ==
    /\ tasks[i].pc = "extract"
    /\ LET cause == IF tasks[i].seen \in {"none", EOF}
                    THEN ErrDecode ELSE tasks[i].seen IN
       TaskStep(i, [tasks[i] EXCEPT !.cause = cause,
                                    !.got = 0,
                                    !.seen = "none",
                                    !.res = "extract failed",
                                    !.rerr = CloseOnce(@, cause),
                                    !.pc = AfterRestore("extract failed")])

\* line 139: Extract has read the stream to its end and returns the bytes
\* it wrote and no error
restore_ExtractOk(i) ==
    /\ tasks[i].pc = "extract"
    /\ tasks[i].seen = EOF
    /\ TaskStep(i, [tasks[i] EXCEPT !.written = tasks[i].got,
                                    !.got = 0,
                                    !.seen = "none",
                                    !.pc = "meta"])

\* lines 160 and 123: restore returns nil and its deferred call closes
\* the read end
ReturnNil(t) ==
    [t EXCEPT !.res = NoError,
              !.rerr = CloseOnce(@, ErrClosedPipe),
              !.pc = AfterRestore(NoError)]

\* line 149, lines 191-203: writeCacheMetadata up to os.WriteFile's
\* truncating open of the file
writeCacheMetadata_Begin(i) ==
    /\ tasks[i].pc = "meta"
    /\ tasks' = [tasks EXCEPT ![i].pc = "metaio"]
    /\ metaWriters' = metaWriters \cup {i}
    /\ metaFile' = PartialFile
    /\ UNCHANGED <<r, arg, objects, chunks, pc, key, genLog, listLog, dsts, idx, wg, errs,
                   metaWrites, result>>

\* lines 203-208, then 149-160: os.WriteFile ends, writeCacheMetadata
\* returns nil and restore returns nil
writeCacheMetadata_End(i) ==
    /\ tasks[i].pc = "metaio"
    /\ tasks' = [tasks EXCEPT ![i] = ReturnNil(tasks[i])]
    /\ metaWriters' = metaWriters \ {i}
    /\ metaFile' = CacheMetadata(HumanizeBytes(tasks[i].written))
    /\ metaWrites' = metaWrites + 1
    /\ UNCHANGED <<r, arg, objects, chunks, pc, key, genLog, listLog, dsts, idx, wg, errs,
                   result>>

writeCacheMetadata_Fails_Propagates(i) ==
    /\ tasks[i].pc = "meta"
    /\ TaskStep(i, [tasks[i] EXCEPT !.cause = "metadata write failed",
                                    !.res = "metadata write failed",
                                    !.rerr = CloseOnce(@, ErrClosedPipe),
                                    !.pc = AfterRestore("metadata write failed")])

\* lines 198-206, then 149-160: os.MkdirAll or os.WriteFile fails,
\* writeCacheMetadata returns the error, which restore drops, and restore
\* returns nil
writeCacheMetadata_Fails(i) ==
    /\ tasks[i].pc = "meta"
    /\ TaskStep(i, ReturnNil(tasks[i]))

\* line 104: errs.Add of the error that names the source, the destination
\* and the cause; task (which goroutine added it) and launched (how many
\* goroutines had been started by then) are history, not part of the error
Task_Add(i) ==
    /\ tasks[i].pc = "add"
    /\ errs' = MultiError_Add(errs, [task |-> i, src |-> tasks[i].src,
                                     dst |-> tasks[i].dst,
                                     cause |-> tasks[i].cause,
                                     launched |-> idx])
    /\ tasks' = [tasks EXCEPT ![i].pc = "wgdone"]
    /\ UNCHANGED <<r, arg, objects, chunks, pc, key, genLog, listLog, dsts, idx, wg,
                   metaFile, metaWriters, metaWrites, result>>

\* line 101: the deferred wg.Done
Task_Done(i) ==
    /\ tasks[i].pc = "wgdone"
    /\ wg' = wg - 1
    /\ tasks' = [tasks EXCEPT ![i].pc = "done"]
    /\ UNCHANGED <<r, arg, objects, chunks, pc, key, genLog, listLog, dsts, idx, errs,
                   metaFile, metaWriters, metaWrites, result>>

(***************************************************************************)
(* The inputs and the specification.                                       *)
(***************************************************************************)
\* the destinations callers name
DstA == <<"a">>
DstB == <<"b">>

\* the caller's lists: the first n of a, b, a, b, ...
DstList(n) == [i \in 1..n |-> IF i % 2 = 1 THEN DstA ELSE DstB]

\* the stores: objects named a, b, a, ... right under join(namespace, key)
ObjectList(n) == [i \in 1..n |-> <<SLASH>> \o DstList(n)[i]]

Namespaces == { <<"n", "s">> }
Backends == { "s3", "harness" }
AccountID == <<"i", "d">>
Primaries == { PrimaryOk, PrimaryFail }
Fallbacks == { NilGenerator, FallbackOk, FallbackFail }

\* every restorer NewRestorer can make from these
Restorers ==
    [ g : Primaries, fg : Fallbacks, namespace : Namespaces,
      failIfKeyNotPresent : BOOLEAN, enableCacheKeySeparator : BOOLEAN,
      backend : Backends, accountID : {AccountID} ]

\* a restorer with no fallback generator and every policy off
PlainRestorers ==
    [ g : Primaries, fg : {NilGenerator}, namespace : Namespaces,
      failIfKeyNotPresent : {FALSE}, enableCacheKeySeparator : {FALSE},
      backend : {"s3"}, accountID : {AccountID} ]

\* the state when Restore is called
Called ==
    /\ pc = "start"
    /\ dsts = arg
    /\ key = <<>>
    /\ genLog = <<>>
    /\ listLog = <<>>
    /\ idx = 0
    /\ wg = 0
    /\ errs = <<>>
    /\ tasks = <<>>
    /\ metaFile = NoFile
    /\ metaWriters = {}
    /\ metaWrites = 0
    /\ result = NotReturned

\* Restore called with up to MaxDsts destinations on a plain restorer
Init ==
    /\ r \in PlainRestorers
    /\ \E n \in 0..MaxDsts : arg = DstList(n)
    /\ objects = <<>>
    /\ chunks = MaxChunks
    /\ Called

\* Restore called on any restorer, with up to MaxEntries destinations, or
\* with none and up to MaxEntries objects in the store
InitDiscovery ==
    /\ r \in Restorers
    /\ \E n \in 0..MaxEntries, m \in 0..MaxEntries :
          /\ n > 0 => m = 0
          /\ arg = DstList(n)
          /\ objects = ObjectList(m)
    /\ chunks = MaxChunks
    /\ Called

\* the namespace of the path inputs, and the forms a caller can write it in
Base == <<"n", "s">>
NamespaceForms == { Base, Base \o <<SLASH>>, <<DOT, SLASH>> \o Base }

\* names of stored objects, as what follows join(namespace, key): the
\* object at the cache's root itself, the root with a trailing separator,
\* an object under the root, and an object under another key that starts
\* with this one
ObjectNames ==
    << <<>>, <<SLASH>>, <<SLASH>> \o DstA, <<"2", SLASH>> \o DstA >>

\* the stores of n of these objects, in listing order
Stores(n) ==
    IF n = 0 THEN { <<>> }
    ELSE IF n = 1 THEN { <<ObjectNames[i]>> : i \in 1..Len(ObjectNames) }
    ELSE { s \in [1..n -> {ObjectNames[i] : i \in 1..Len(ObjectNames)}] :
              \A i \in 1..(n - 1) :
                 \E a, b \in 1..Len(ObjectNames) :
                    /\ a < b
                    /\ s[i] = ObjectNames[a]
                    /\ s[i + 1] = ObjectNames[b] }

\* restorers whose key generation succeeds, with the namespace written in
\* every form, on either backend and under either separator policy
PathRestorers ==
    [ g : {PrimaryOk}, fg : {NilGenerator}, namespace : NamespaceForms,
      failIfKeyNotPresent : {FALSE}, enableCacheKeySeparator : BOOLEAN,
      backend : Backends, accountID : {AccountID} ]

\* Restore called on a path restorer, with up to MaxEntries destinations,
\* or with none and up to MaxEntries objects in the store
InitPaths ==
    /\ r \in PathRestorers
    /\ \E n \in 0..MaxEntries, m \in 0..MaxEntries :
          /\ n > 0 => m = 0
          /\ arg = DstList(n)
          /\ objects \in Stores(m)
    /\ chunks = MaxChunks
    /\ Called

\* Restore called on a plain restorer whose key generation succeeds, with
\* up to MaxEntries destinations whose objects have up to MaxStream chunks
InitPipe ==
    /\ r \in PlainRestorers
    /\ r.g = PrimaryOk
    /\ \E n \in 0..MaxEntries : arg = DstList(n)
    /\ objects = <<>>
    /\ chunks \in 0..MaxStream
    /\ Called

Next ==
    \/ Restore_GenerateKey
    \/ Restore_List
    \/ Restore_Launch
    \/ Restore_Wait
    \/ \E i \in Tasks : restore_Begin(i)
    \/ \E i \in Tasks : Get_Write(i)
    \/ \E i \in Tasks : Get_WriteFails(i)
    \/ \E i \in Tasks : \E e \in {NoError, ErrFetch} : Get_Return(i, e)
    \/ \E i \in Tasks : Extract_Read(i)
    \/ \E i \in Tasks : restore_ExtractFails(i)
    \/ \E i \in Tasks : restore_ExtractOk(i)
    \/ \E i \in Tasks : writeCacheMetadata_Begin(i)
    \/ \E i \in Tasks : writeCacheMetadata_End(i)
    \/ \E i \in Tasks : writeCacheMetadata_Fails(i)
    \/ \E i \in Tasks : Task_Add(i)
    \/ \E i \in Tasks : Task_Done(i)

Spec == Init /\ [][Next]_vars

SpecDiscovery == InitDiscovery /\ [][Next]_vars

SpecPaths == InitPaths /\ [][Next]_vars

SpecPipe == InitPipe /\ [][Next]_vars

\* a writer waiting in pw.Write is woken when the read end is closed
\* (io.Pipe), and the scheduler runs a goroutine that can run
Unblocked(i) ==
    /\ i \in Tasks
    /\ tasks[i].prod = "write"
    /\ Get_WriteFails(i)

SpecPipeFair == SpecPipe /\ \A i \in 1..MaxEntries : WF_vars(Unblocked(i))

(***************************************************************************)
(* Properties.                                                             *)
(***************************************************************************)
\* Restore has returned from line 112 or 117, that is, after the join
ReturnedAfterJoin ==
    /\ pc = "returned"
    /\ result.kind \in {NoError, "restore failed"}

\* the goroutine of task i has ended
Ended(i) == tasks[i].pc = "done"

\* task i's restore has returned an error
Failed(i) == tasks[i].res \notin {"none", NoError}

\* C1: Restore starts exactly one task for each element of dsts, the i-th
\* task for the i-th destination, and when it returns after the join every
\* one of them has been started and has ended.
C1_OneTaskPerDestinationJoined ==
    /\ Len(tasks) = idx
    /\ idx <= Len(dsts)
    /\ \A i \in Tasks : tasks[i].dst = dsts[i]
    /\ ReturnedAfterJoin =>
          /\ Len(tasks) = Len(dsts)
          /\ \A i \in Tasks : Ended(i)

\* C1's case: Restore has returned after the join with more than one
\* destination
C1_Witness ==
    /\ ReturnedAfterJoin
    /\ Len(dsts) > 1
    /\ \A i \in 1..Len(dsts) : Ended(i)

\* task i has left restore
LeftRestore(i) == tasks[i].pc \in {"add", "wgdone", "done"}

\* task i's producer has called Storage.Get and its Extract has returned:
\* without error once its own Get had returned, or with an error of its own
RanItsOwn(i) ==
    /\ tasks[i].prod # "none"
    /\ tasks[i].res # "none"
    /\ \/ tasks[i].res = NoError /\ tasks[i].prod = "exit"
       \/ tasks[i].res # NoError /\ tasks[i].cause \in {ErrDecode, ErrFetch}

\* C2: whatever its siblings have done, a task leaves restore only when its
\* own Storage.Get has been called and its own Extract has returned; a step
\* of one task changes no other task; and at the join no task was skipped.
C2_SiblingsRunToCompletion ==
    /\ \A i \in Tasks : LeftRestore(i) => RanItsOwn(i)
    /\ ReturnedAfterJoin =>
          \A i \in 1..Len(dsts) : i \in Tasks /\ LeftRestore(i) /\ RanItsOwn(i)

\* C2's case: a sibling's failure was recorded before task i was even
\* started, and task i has run its fetch and extraction to a success
C2_Witness ==
    /\ ReturnedAfterJoin
    /\ \E i \in Tasks :
          /\ tasks[i].res = NoError
          /\ tasks[i].getRes = NoError
          /\ tasks[i].written > 0
          /\ \E k \in 1..Len(errs) : errs[k].launched < i

\* the entries of errs that task i added
EntriesOf(i) == {k \in 1..Len(errs) : errs[k].task = i}

\* C3: after the join Restore returns an error exactly when some task's
\* restore failed, the error is the aggregate, and the aggregate holds one
\* entry for each failed task, with its source, destination and cause, and
\* none for a task that succeeded.
C3_AggregateExact ==
    ReturnedAfterJoin =>
       /\ (result.kind = "restore failed") <=> (\E i \in Tasks : Failed(i))
       /\ result.kind = "restore failed" => result.cause = errs
       /\ \A i \in Tasks :
             Cardinality(EntriesOf(i)) = IF Failed(i) THEN 1 ELSE 0
       /\ \A k \in 1..Len(errs) :
             /\ errs[k].task \in Tasks
             /\ errs[k].dst = tasks[errs[k].task].dst
             /\ errs[k].src = tasks[errs[k].task].src
             /\ errs[k].cause = tasks[errs[k].task].cause

\* C3's case: of several destinations exactly one failed, and the error
\* Restore returned holds that one only
C3_Witness ==
    /\ ReturnedAfterJoin
    /\ Len(tasks) > 1
    /\ Cardinality({i \in Tasks : Failed(i)}) = 1
    /\ result.kind = "restore failed"
    /\ Len(result.cause) = 1

\* no restore task was started: no goroutine, hence no Storage.Get and no
\* Archive.Extract call
NothingStarted ==
    /\ tasks = <<>>
    /\ idx = 0
    /\ wg = 0
    /\ errs = <<>>
    /\ metaWrites = 0 /\ metaWriters = {} /\ metaFile = NoFile

\* key resolution fails: the primary fails and there is no fallback, or
\* the fallback fails too
KeyFails ==
    /\ r.g.err # NoError
    /\ r.fg.nil \/ r.fg.err # NoError

\* Storage.List was called and answered with an error that is not the
\* not-implemented sentinel
ListFailed ==
    /\ Len(listLog) > 0
    /\ listLog[1].err \notin {NoError, ErrNotImplemented}

\* C4: when key resolution fails Restore returns that error, Storage.List
\* is never called and no task is started; when Storage.List fails with
\* another error than the sentinel Restore returns that error and no task
\* is started.
C4_FatalBeforeTasks ==
    /\ (pc # "start" /\ KeyFails) =>
          /\ pc = "returned"
          /\ result.kind = "generate key"
          /\ result.cause = (IF r.fg.nil THEN r.g.err ELSE r.fg.err)
          /\ listLog = <<>>
          /\ NothingStarted
    /\ ListFailed =>
          /\ pc = "returned"
          /\ result = [kind |-> "list", cause |-> listLog[1].err]
          /\ NothingStarted
    /\ result.kind \in {"generate key", "list"} => NothingStarted

\* C4's case: Storage.List has failed and Restore has returned its error
C4_Witness ==
    /\ ListFailed
    /\ pc = "returned"
    /\ result.kind = "list"

\* the primary generator fails and the configured fallback succeeds
FallbackSaves ==
    /\ r.g.err # NoError
    /\ ~r.fg.nil
    /\ r.fg.err = NoError

\* C5: when the primary fails and the fallback succeeds, the key is the
\* fallback's, Restore does not return a key error and goes on to
\* discovery or to the tasks.
C5_FallbackKey ==
    (pc # "start" /\ FallbackSaves) =>
       /\ key = r.fg.key
       /\ result.kind # "generate key"
       /\ \/ pc \in {"list", "launch"}
          \/ pc = "returned" /\ (Len(listLog) > 0 \/ Len(tasks) > 0)
       /\ \A i \in Tasks : tasks[i].src = Join(<<namespace, r.fg.key, tasks[i].dst>>)

\* C5's case: the fallback's key was used and Restore has succeeded with it
C5_Witness ==
    /\ FallbackSaves
    /\ pc = "returned"
    /\ result.kind = NoError
    /\ Len(tasks) > 0
    /\ key = FallbackOk.key

\* C6: the primary is invoked first; the fallback is invoked exactly when
\* the primary has failed and a fallback is configured, and after it; a
\* primary's key is returned as it is; with no fallback the primary's
\* error is returned; when both fail the fallback's error is returned and
\* the key is empty.
C6_GeneratorsInOrder ==
    pc # "start" =>
       /\ Len(genLog) > 0 /\ genLog[1] = "g"
       /\ genLog = (IF r.g.err # NoError /\ ~r.fg.nil
                    THEN <<"g", "fg">> ELSE <<"g">>)
       /\ r.g.err = NoError => key = r.g.key /\ result.kind # "generate key"
       /\ (r.g.err # NoError /\ r.fg.nil) =>
             result = [kind |-> "generate key", cause |-> r.g.err]
       /\ (r.g.err # NoError /\ ~r.fg.nil /\ r.fg.err # NoError) =>
             /\ result = [kind |-> "generate key", cause |-> r.fg.err]
             /\ key = <<>>

\* C6's case: both generators were invoked, in order, and both failed
C6_Witness ==
    /\ pc = "returned"
    /\ genLog = <<"g", "fg">>
    /\ result = [kind |-> "generate key", cause |-> FallbackFail.err]

\* Storage.List was called, succeeded and returned no entry
ListedNothing ==
    /\ Len(listLog) > 0
    /\ listLog[1].err = NoError
    /\ Len(listLog[1].entries) = 0

\* C7: when no destination is given and Storage.List succeeds with no
\* entry, Restore with the policy enabled returns a key-not-found error
\* and starts no task; with the policy disabled it returns no error.
C7_FailIfAbsent ==
    /\ Len(listLog) > 0 => arg = <<>>
    /\ ListedNothing =>
          IF r.failIfKeyNotPresent
          THEN /\ pc = "returned"
               /\ result = [kind |-> "key does not exist",
                            cause |-> listLog[1].prefix]
               /\ NothingStarted
          ELSE /\ pc = "returned" => result.kind = NoError
               /\ pc # "returned" => result = NotReturned
    /\ result.kind = "key does not exist" =>
          ListedNothing /\ r.failIfKeyNotPresent

\* C7's case: the policy is enabled, the listing is empty and Restore has
\* returned the key-not-found error
C7_Witness ==
    /\ ListedNothing
    /\ r.failIfKeyNotPresent
    /\ pc = "returned"
    /\ result.kind = "key does not exist"

\* Storage.List was called and returned the not-implemented sentinel
ListNotImplemented ==
    /\ Len(listLog) > 0
    /\ listLog[1].err = ErrNotImplemented

\* C8: when Storage.List returns the sentinel, discovery adds no
\* destination and Restore returns no error for it, whatever the policy:
\* the destinations stay the caller's, and the tasks are theirs.
C8_NotImplementedIsNoError ==
    ListNotImplemented =>
       /\ dsts = arg
       /\ pc \in {"launch", "returned"}
       /\ result.kind \notin {"list", "key does not exist", "generate key"}
       /\ Len(tasks) <= Len(arg)
       /\ \A i \in Tasks : tasks[i].dst = arg[i]
       /\ pc = "returned" => Len(tasks) = Len(arg)

\* C8's case: the policy is enabled, Storage.List has returned the
\* sentinel and Restore has returned no error
C8_Witness ==
    /\ ListNotImplemented
    /\ r.failIfKeyNotPresent
    /\ pc = "returned"
    /\ result.kind = NoError

\* C9: the metadata file is written once in a call, by the coordinator
\* after the join: never two writers at a time, never more than one write,
\* and no write while a task is running.
C9_MetadataOnceAfterJoin ==
    /\ Cardinality(metaWriters) <= 1
    /\ metaWrites <= 1
    /\ (metaWriters # {} \/ metaWrites > 0) =>
          /\ Len(tasks) = Len(dsts)
          /\ \A i \in Tasks : Ended(i)

\* C9, the part about concurrent writers alone: never two writers of the
\* metadata file at a time
C9_NeverTwoWriters == Cardinality(metaWriters) <= 1

\* task i has called writeCacheMetadata
CalledWriteCacheMetadata(i) ==
    \/ tasks[i].pc = "metaio"
    \/ tasks[i].res = NoError

\* C10: Restore returns either no error, with the metadata written in the
\* call, or an error, with the metadata not written in the call.
C10_SuccessIffMetadata ==
    pc = "returned" =>
       IF result.kind = NoError
       THEN \E i \in Tasks : CalledWriteCacheMetadata(i)
       ELSE /\ metaWrites = 0
            /\ metaFile = NoFile
            /\ \A i \in Tasks : ~CalledWriteCacheMetadata(i)

\* C10, the second half alone: a recorded failure implies that the
\* metadata was not written
C10_FailureImpliesNoMetadata ==
    (pc = "returned" /\ Len(errs) > 0) => metaWrites = 0

\* task i's Extract has returned without error
Extracted(i) ==
    /\ tasks[i].pc \in {"meta", "metaio", "add", "wgdone", "done"}
    /\ tasks[i].cause = "none"

\* the tasks whose restore has returned nil
Restored == {i \in Tasks : tasks[i].res = NoError}

\* C11: a failure of writeCacheMetadata never fails Restore: a task whose
\* Extract succeeded returns nil from restore whether the write succeeded
\* or not, every entry of the aggregate is an error Extract returned, and
\* when every destination's extraction succeeded Restore returns nil.
C11_MetadataFailureNotFatal ==
    /\ \A i \in Tasks : (Extracted(i) /\ LeftRestore(i)) => tasks[i].res = NoError
    /\ \A k \in 1..Len(errs) :
          /\ errs[k].cause \in {ErrDecode, ErrFetch}
          /\ ~Extracted(errs[k].task)
    /\ (ReturnedAfterJoin /\ \A i \in Tasks : Extracted(i)) =>
          result.kind = NoError

\* C11's case: every extraction succeeded, a metadata write failed (fewer
\* writes were completed than restores returned nil) and Restore has
\* returned nil
C11_Witness ==
    /\ ReturnedAfterJoin
    /\ Len(tasks) > 1
    /\ \A i \in Tasks : Extracted(i)
    /\ metaWrites < Cardinality(Restored)
    /\ result.kind = NoError

\* the prefix and the source path of a restorer whose namespace is Base
\* written with neither a trailing separator nor a leading "./"
BasePrefix ==
    Base \o <<SLASH>> \o key \o
    (IF r.enableCacheKeySeparator THEN <<SLASH>> ELSE <<>>)

BaseSource(dst) == Join(<<Base, key, dst>>)

\* C12: with the namespace written with a trailing separator, with a
\* leading "./" or with neither, Storage.List is called with the same
\* prefix and every task gets the same source path for its destination.
C12_NamespaceNormalized ==
    r.namespace \in NamespaceForms =>
       /\ \A k \in 1..Len(listLog) : listLog[k].prefix = BasePrefix
       /\ \A i \in Tasks : tasks[i].src = BaseSource(tasks[i].dst)

\* C12's case: a namespace written with a leading "./", a listing made and
\* a task launched for a listed entry
C12_Witness ==
    /\ r.namespace = <<DOT, SLASH>> \o Base
    /\ Len(listLog) > 0
    /\ \E i \in Tasks : tasks[i].dst = DstA

\* Storage.Get of task i has returned an error
FetchFailed(i) == tasks[i].getRes \notin {"none", NoError}

\* the aggregate has an entry of task i with this cause
Recorded(i, cause) ==
    \E k \in 1..Len(errs) : errs[k].task = i /\ errs[k].cause = cause

\* C13 as stated: whenever Storage.Get has failed for a destination whose
\* restore has returned, restore returned an error and the destination is
\* in the aggregate with the fetch error as its cause.
C13_FetchErrorIsTheCause ==
    \A i \in Tasks :
       (FetchFailed(i) /\ tasks[i].pc \in {"wgdone", "done"}) =>
          /\ Failed(i)
          /\ Recorded(i, ErrFetch)

\* C13, amended: whenever Storage.Get has failed for a destination, the
\* write end is closed with the fetch error, what Extract reads from the
\* pipe after that is this error, restore never returns nil, and the
\* destination is in the aggregate: with the fetch error as its cause, or
\* with Extract's own error when Extract had failed before reading it.
C13_FailedFetchNeverSuccessful ==
    \A i \in Tasks :
       FetchFailed(i) =>
          /\ tasks[i].werr = ErrFetch
          /\ tasks[i].seen \in {"none", ErrFetch}
          /\ tasks[i].pc \notin {"meta", "metaio"}
          /\ LeftRestore(i) =>
                /\ Failed(i)
                /\ tasks[i].cause \in {ErrFetch, ErrDecode}
          /\ tasks[i].pc \in {"wgdone", "done"} =>
                Recorded(i, tasks[i].cause)

\* C13's case: a Storage.Get failed by itself, Extract read the error,
\* and the task has ended with the destination recorded for that cause
C13_Witness ==
    \E i \in Tasks :
       /\ tasks[i].getRes = ErrFetch
       /\ Ended(i)
       /\ Recorded(i, ErrFetch)

\* the producer of task i waits in pw.Write and Extract has returned
BlockedAfterExtract(i) ==
    /\ i \in Tasks
    /\ tasks[i].prod = "write"
    /\ tasks[i].pc # "extract"

\* the producer of task i is back from Storage.Get, which returned an error
ProducerReturnedError(i) ==
    /\ i \in Tasks
    /\ tasks[i].prod = "exit"
    /\ FetchFailed(i)

Streaming(i) ==
    /\ tasks[i].pc = "extract"
    /\ tasks[i].prod \in {"get", "write"}

\* C15: the pipe holds no data: while both ends are at work the producer
\* has handed over at most one chunk that Extract has not read, namely
\* the one of the write it is waiting in, and a write returns only when
\* its chunk was read; so when the producer writes a later chunk Extract
\* has the chunks before it.
C15_AtMostOneChunkAhead ==
    \A i \in Tasks :
       Streaming(i) =>
          /\ tasks[i].prod = "write" => tasks[i].sent = tasks[i].got + 1
          /\ tasks[i].prod = "get" => tasks[i].sent = tasks[i].got
          /\ tasks[i].sent > 1 => tasks[i].got >= 1

\* C15's case: the producer waits in the write of its second chunk and
\* Extract has read the first and no more
C15_Witness ==
    \E i \in Tasks :
       /\ Streaming(i)
       /\ tasks[i].prod = "write"
       /\ tasks[i].sent = 2
       /\ tasks[i].got = 1

\* Restore was called with no destination and has listed the store
Discovered ==
    /\ arg = <<>>
    /\ Len(listLog) = 1
    /\ listLog[1].err = NoError

\* the entry Storage.List returned for the destination of task i
ListedEntry(i) == listLog[1].entries[i]

\* the path under which the store lists the object named a right under
\* the cache's root
PathOfA == ObjectPath(key, <<SLASH>> \o DstA)

\* C16: on the "harness" backend the destination of a listed entry is what
\* follows accountID + "/intel/" and the cache prefix in the entry's path,
\* and the source of its task is the path under which the entry was
\* listed; stated for the entry <accountID>/intel/<namespace>/<key>/a.
C16_HarnessSourceIsListedPath ==
    (Discovered /\ r.backend = "harness") =>
       \A i \in Tasks :
          ListedEntry(i).Path = PathOfA =>
             /\ tasks[i].dst = DstA
             /\ tasks[i].src = PathOfA

\* C16, the first half alone, for an entry right under the cache's root:
\* its destination is its path without the routing prefix and the cache
\* prefix
C16_HarnessDestinationStripped ==
    (Discovered /\ r.backend = "harness") =>
       \A i \in Tasks :
          ListedEntry(i).Path = PathOfA => tasks[i].dst = DstA

\* C17: every destination discovery derives from a listed entry is
\* non-empty, and no task is started with an empty destination.
C17_DestinationNeverEmpty ==
    /\ Discovered => \A i \in 1..Len(dsts) : dsts[i] # <<>>
    /\ \A i \in Tasks : tasks[i].dst # <<>>

\* C19: on a backend without routing prefix, under either separator
\* policy, the source of the task started for a listed entry is the path
\* under which the entry was listed.
C19_DiscoveryRoundTrip ==
    (Discovered /\ r.backend # "harness") =>
       \A i \in Tasks : tasks[i].src = ListedEntry(i).Path

\* C19, for the entries under the prefix followed by a separator: the
\* entry <namespace>/<key>/a
C19_RoundTripUnderKey ==
    (Discovered /\ r.backend # "harness") =>
       \A i \in Tasks :
          ListedEntry(i).Path = PathOfA =>
             /\ tasks[i].dst = DstA
             /\ tasks[i].src = PathOfA

\* C19, for an entry of another key whose name starts with the key: the
\* entry <namespace>/<key>2/a
C19_RoundTripOtherKey ==
    (Discovered /\ r.backend # "harness") =>
       \A i \in Tasks :
          ListedEntry(i).Path = ObjectPath(key, <<"2", SLASH>> \o DstA) =>
             tasks[i].src = ListedEntry(i).Path

\* the bytes the extractor reported, summed over the tasks 1..n
RECURSIVE WrittenUpTo(_)
WrittenUpTo(n) == IF n = 0 THEN 0 ELSE tasks[n].written + WrittenUpTo(n - 1)

\* C18: when Restore has returned no error for its destinations, the
\* metadata file records the total of the bytes Extract reported for
\* all of them, whatever the order in which the tasks finished.
C18_MetadataRecordsTotal ==
    (ReturnedAfterJoin /\ result.kind = NoError /\ metaWrites = Len(tasks)
        /\ Len(tasks) > 0) =>
       metaFile = CacheMetadata(HumanizeBytes(WrittenUpTo(Len(tasks))))

\* C18 for a call with one destination: the file records what Extract
\* reported for it
C18_SingleDestinationSize ==
    (ReturnedAfterJoin /\ result.kind = NoError /\ metaWrites = Len(tasks)
        /\ Len(tasks) = 1) =>
       metaFile = CacheMetadata(HumanizeBytes(tasks[1].written))

\* the producer goroutine of task i is running: it has called Storage.Get
\* and Storage.Get has not returned
InStorageGet(i) == tasks[i].prod \in {"get", "write"}

\* C20: when Restore has returned, no producer goroutine is running: no
\* call of Storage.Get is in progress.
C20_NoProducerOutlivesRestore ==
    pc = "returned" => \A i \in Tasks : ~InStorageGet(i)

\* C20 for the tasks whose restore returned nil: their producers have
\* ended when Restore returns
C20_ProducersOfRestoredEnded ==
    pc = "returned" =>
       \A i \in Tasks : tasks[i].res = NoError => tasks[i].prod = "exit"

====
